---- MODULE Spec2Model ----
(***************************************************************************)
(* A model of the EasyPay bulk importer, dist/services/EasyPayDataImporter *)
(* (class EasyPayDataImporter), running against the easypay_clients table  *)
(* created in dist/database/init.js.                                       *)
(*                                                                         *)
(* JavaScript runs one callback at a time: every action below is one run   *)
(* of synchronous code between two awaits.  A store call (db.get, db.run)  *)
(* is issued by one action and answered by a later one; the answering      *)
(* action is the moment the statement takes effect in the table together   *)
(* with the continuation of the awaiting processClient.  The importer      *)
(* calls db outside db.serialize, so the statements of the records of one  *)
(* batch are answered in any order; any statement may be failed by the     *)
(* store (err), and the constraints of the table fail an INSERT or UPDATE  *)
(* that violates them.                                                     *)
(***************************************************************************)
EXTENDS Integers, Sequences, FiniteSets, TLC

\* ---------------------------------------------------------------- bounds
MaxLen == 3          \* longest dataset (records in Sheet1) of Spec
MaxLenSeq == 2       \* longest dataset of SpecSeq
MaxLenDry == 3       \* longest dataset of SpecDry
MaxCalls == 2        \* importAll invocations on the one importer in SpecSeq
MaxElapsed == 1      \* largest Date.now() - startTime
MaxLenBatch == 5     \* longest dataset of SpecBatch
MaxBatchSize == 3    \* largest options.batchSize of SpecBatch
MaxLenApi == 1       \* longest dataset of SpecApi
MaxCallsApi == 2     \* importAll invocations on the one importer in SpecApi
MaxApi == 2          \* calls of getStats and resetStats and caller's writes
MaxLenCli == 2       \* longest dataset of SpecCli
MaxLenHttp == 2      \* longest dataset of SpecHttp
MaxLenJoin == 3      \* longest dataset of SpecJoin
MaxLenDup == 2       \* longest dataset of SpecDup
MaxLenSize == 2      \* longest dataset of SpecSize
MaxPushed == 2       \* the slices the heap has room for in createBatches
MaxLenTwo == 2       \* longest dataset of SpecTwo

\* ------------------------------------------------------------- constants
DefaultBatchSize == 100      \* options.batchSize || 100

\* ------------------------------------------------------------ the values
Undefined == "undefined"     \* a property that is absent from an object

\* JavaScript truthiness: of a string or an absent property, of an optional
\* boolean (written "true", "false" or absent), of an optional number (<<>>
\* when absent, <<n>> when given)
Truthy(v) == v \notin {Undefined, ""}
TruthyFlag(f) == f = "true"
TruthyNum(n) == n # <<>> /\ n[1] # 0

ClientIds == {Undefined, "", "A", "B"}      \* client["Client ID"]
Emails == {Undefined, "", "x", "y"}          \* client["Email"]
Clients == [id : ClientIds, email : Emails]
\* the records the datasets of Spec and of SpecSeq are made of
ClientsSpec == {c \in Clients : c.email = "x"}
ClientsSeq == {c \in Clients : c.id \in {Undefined, "A"} /\ c.email \in {Undefined, "x"}}
\* the records, the tables and the options of SpecApi: importAll({}) and
\* importAll({dryRun: true})
ClientsApi == {c \in Clients : c.id \in {Undefined, "A"} /\ c.email = "x"}
ApiOptions ==
    [batchSize : {<<>>}, skipDuplicates : {Undefined},
     updateExisting : {Undefined}, dryRun : {"true", Undefined}]
\* the records of SpecCli: with and without key, two with the same key and
\* different fields
ClientsCli ==
    {c \in Clients : \/ c.id = "A" /\ c.email \in {"x", "y"}
                     \/ c.id \in {Undefined, "B"} /\ c.email = "x"}
\* what the command line can hold: --batch-size with the number parseInt made
\* of its argument (0 also stands for NaN), --update-existing, --dry-run; a
\* flag is "true" when given
CliArgs ==
    [via : {"cli"}, batchSize : {<<>>, <<0>>, <<1>>, <<2>>}, skipDuplicates : {Undefined},
     updateExisting : {"true", Undefined}, dryRun : {"true", Undefined}]
\* two records that differ, for the datasets createBatches is tried on
ClientsBatch == {c \in Clients : c.id \in {"A", "B"} /\ c.email = "x"}
StoreKeys == {k \in ClientIds : Truthy(k)}

\* a row that was in the table before the importer was constructed
OldRow(k) == [id |-> k, email |-> "old"]
TablesApi == {{}, {OldRow("A")}}

BatchSizes == {<<>>, <<1>>, <<2>>}
Flags == {"true", "false", Undefined}
ImportOptions ==
    [batchSize : BatchSizes, skipDuplicates : Flags, updateExisting : Flags,
     dryRun : {"true", Undefined}]

\* the options of SpecSize: no batch size, 0, a negative and a positive one,
\* with every policy, real and dry
SizeOptions ==
    [batchSize : {<<>>, <<0>>, <<-1>>, <<1>>}, skipDuplicates : {"false", Undefined},
     updateExisting : {"true", Undefined}, dryRun : {"true", Undefined}]
\* how a createBatches that fills the heap ends: push throws RangeError
\* (Invalid array length), which importAll catches and rethrows, or the
\* engine gives up on the process
Exhaustions == {"thrown", "aborted"}

\* the records of SpecTwo: every one has a key
ClientsTwo == {c \in Clients : c.id \in {"A", "B"} /\ c.email = "x"}
\* the options of SpecTwo: the default policy, the default batch size and
\* batches of one record
TwoOptions ==
    [batchSize : {<<>>, <<1>>}, skipDuplicates : {Undefined},
     updateExisting : {Undefined}, dryRun : {Undefined}]

\* the records and the options of SpecJoin: real runs, every batch size, the
\* policies that skip and that update
ClientsJoin == {c \in Clients : c.id \in {Undefined, "A", "B"} /\ c.email = "x"}
JoinOptions ==
    [batchSize : BatchSizes, skipDuplicates : {"false", Undefined},
     updateExisting : {"true", Undefined}, dryRun : {Undefined}]
\* the records of SpecHttp, and the bodies of POST /easypay/import: each
\* property absent or given
ClientsHttp == {c \in Clients : c.id \in {Undefined, "A", "B"} /\ c.email = "x"}
Bodies ==
    [via : {"http"}, batchSize : {<<>>, <<1>>}, skipDuplicates : Flags,
     updateExisting : Flags, dryRun : {"true", Undefined}]

\* the six counters of ImportStats, as the constructor sets them
ZeroStats ==
    [total |-> 0, imported |-> 0, skipped |-> 0, errors |-> 0,
     duplicates |-> 0, processingTime |-> 0]

\* an ImportStats object in the hands of a caller: none yet, the very object
\* this.stats points to (its counters are read through the importer's), or an
\* object of the caller's own with the counters val
NotHeld == [held |-> "none", val |-> ZeroStats]
Live == [held |-> "live", val |-> ZeroStats]
Own(v) == [held |-> "own", val |-> v]

\* importAll called by code that is not modelled any further
Direct == [via |-> "direct", batchSize |-> <<>>, skipDuplicates |-> Undefined,
           updateExisting |-> Undefined, dryRun |-> Undefined]

\* why the source file cannot be loaded
SourceFailures == {"missing", "unparsable"}

VARIABLES
    clients,     \* jsonData.Sheet1 of the file at jsonPath
    store,       \* the rows of easypay_clients
    stats,       \* this.stats
    pc,          \* where importAll is: idle, loop, map, await, returned, thrown
    options,     \* the options of the importAll in progress (or last made)
    bi,          \* the batch loop's i, counted from 1
    rpc,         \* per record of the dataset: where its processClient is
    calls,       \* importAll invocations made so far on this importer
    store0,      \* the table when the current importAll was invoked
    stats0,      \* this.stats when the current importAll was invoked
    failed,      \* the records of the current importAll for which the store
                 \* failed a call for another reason than UNIQUE(client_id)
    source,      \* what became of loading the file in the current importAll:
                 \* loaded, missing, unparsable (none before the first call)
    req,         \* what the caller of importAll was given: the argv of the
                 \* command line tool, the body of the HTTP request
    ret,         \* the object the last returned importAll handed to its caller
    snap,        \* the object the last getStats handed to its caller
    api,         \* the calls of getStats and resetStats and the caller's writes
                 \* to what getStats gave it: how many so far, and the last one
    pushed,      \* batches.length inside a createBatches whose loop does not end
    other        \* a second importer on the same table and the same file (the
                 \* route makes one per request): its fields while the event
                 \* loop runs code of the first, and the reverse

vars == <<clients, store, stats, pc, options, bi, rpc, calls, store0, stats0, failed,
          source, req, ret, snap, api, pushed, other>>

Range(s) == {s[i] : i \in DOMAIN s}
Min(a, b) == IF a < b THEN a ELSE b

\* ------------------------------------------------------- pure functions

\* a variant of slice that takes the element at index to as well
SliceInclusive(s, from, to) == SubSeq(s, from + 1, Min(to + 1, Len(s)))
\* Array.prototype.slice(from, to) with 0-based from, exclusive to
Slice(s, from, to) == SubSeq(s, from + 1, Min(to, Len(s)))

RECURSIVE createBatchesFrom(_, _, _)
createBatchesFrom(cs, batchSize, i) ==
    IF i < Len(cs)
    THEN <<Slice(cs, i, i + batchSize)>> \o createBatchesFrom(cs, batchSize, i + batchSize)
    ELSE <<>>

\* a variant that puts every record into one batch
createBatchesWhole(cs, batchSize) == IF Len(cs) = 0 THEN <<>> ELSE <<cs>>

\* createBatches (lines 93-99)
createBatches(cs, batchSize) == createBatchesFrom(cs, batchSize, 0)

\* a variant of the loop that tests the email only when the key is new
RECURSIVE analyzeLoopElseIf(_, _, _, _, _)
analyzeLoopElseIf(cs, i, clientIds, emails, duplicates) ==
    IF i > Len(cs) THEN duplicates
    ELSE LET c == cs[i]
             idSeen == c.id \in clientIds
             mailSeen == ~idSeen /\ Truthy(c.email) /\ c.email \in emails
         IN analyzeLoopElseIf(cs, i + 1,
                IF idSeen THEN clientIds ELSE clientIds \cup {c.id},
                IF idSeen \/ mailSeen THEN emails
                ELSE IF Truthy(c.email) THEN emails \cup {c.email} ELSE emails,
                duplicates + (IF idSeen THEN 1 ELSE 0) + (IF mailSeen THEN 1 ELSE 0))

\* a variant of analyzeData over that loop
analyzeDataElseIf(cs, st) ==
    LET duplicates == analyzeLoopElseIf(cs, 1, {}, {}, 0)
    IN [st EXCEPT !.duplicates = duplicates, !.skipped = duplicates]

\* a variant of the loop for which every missing or empty key is one value
RECURSIVE analyzeLoopOneMissing(_, _, _, _, _)
analyzeLoopOneMissing(cs, i, clientIds, emails, duplicates) ==
    IF i > Len(cs) THEN duplicates
    ELSE LET c == cs[i]
             key == IF Truthy(c.id) THEN c.id ELSE Undefined
             idSeen == key \in clientIds
             mailSeen == Truthy(c.email) /\ c.email \in emails
         IN analyzeLoopOneMissing(cs, i + 1,
                IF idSeen THEN clientIds ELSE clientIds \cup {key},
                IF mailSeen THEN emails
                ELSE IF Truthy(c.email) THEN emails \cup {c.email} ELSE emails,
                duplicates + (IF idSeen THEN 1 ELSE 0) + (IF mailSeen THEN 1 ELSE 0))

\* the loop of analyzeData from record i on; yields the final duplicates
RECURSIVE analyzeLoop(_, _, _, _, _)
analyzeLoop(cs, i, clientIds, emails, duplicates) ==
    IF i > Len(cs) THEN duplicates
    ELSE LET c == cs[i]
             idSeen == c.id \in clientIds
             mailSeen == Truthy(c.email) /\ c.email \in emails
         IN analyzeLoop(cs, i + 1,
                IF idSeen THEN clientIds ELSE clientIds \cup {c.id},
                IF mailSeen THEN emails
                ELSE IF Truthy(c.email) THEN emails \cup {c.email} ELSE emails,
                duplicates + (IF idSeen THEN 1 ELSE 0) + (IF mailSeen THEN 1 ELSE 0))

\* a variant of analyzeData that forgets `this.stats.skipped = duplicates`
analyzeDataSkippedKept(cs, st) ==
    LET duplicates == analyzeLoop(cs, 1, {}, {}, 0)
    IN [st EXCEPT !.duplicates = duplicates]

analyzeData(cs, st) ==
    LET duplicates == analyzeLoop(cs, 1, {}, {}, 0)
    IN [st EXCEPT !.duplicates = duplicates, !.skipped = duplicates]

\* ------------------------------------------------------ derived program state

\* options.batchSize || 100 (line 39)
batchSizeOf(o) == IF TruthyNum(o.batchSize) THEN o.batchSize[1] ELSE DefaultBatchSize
BatchSize == batchSizeOf(options)
Batches == createBatches(clients, BatchSize)

\* dataset index of the first record of batch b, minus one
RECURSIVE Offset(_, _)
Offset(bs, b) == IF b <= 1 THEN 0 ELSE Offset(bs, b - 1) + Len(bs[b - 1])

InBatch(b) ==
    LET bs == Batches
    IN IF b \in 1..Len(bs)
       THEN {Offset(bs, b) + j : j \in 1..Len(bs[b])}
       ELSE {}

\* where a processClient can be: not called yet, awaiting the answer to its
\* SELECT, INSERT or UPDATE, or finished at one of its returns or in its catch
Pending == {"check", "insert", "update"}
Settled == {"ret_nokey", "ret_skipDup", "ret_skipElse", "ret_updated", "ret_inserted",
            "catch_check", "catch_insert", "catch_update"}

\* a variant of the increment that adds 2
IncTwice(st, f) == IF f = "none" THEN st ELSE [st EXCEPT ![f] = @ + 2]
\* this.stats.<f>++, and no increment for f = "none"
Inc(st, f) == IF f = "none" THEN st ELSE [st EXCEPT ![f] = @ + 1]

\* SELECT ... WHERE client_id = ? on table t: the rows found
RowsOf(t, clientId) == {r \in t : r.id = clientId}

\* ---------------------------------------------- the decisions of the code
\* Each yields where the caller goes next and the counter it increments.

\* a variant in which the failed load leaves total at 0
importAllLoadTotalSet(why, st) == [stats |-> [st EXCEPT !.total = 0], pc |-> "thrown"]
\* importAll, lines 26-32 and 55-58, when the source cannot be loaded: the
\* error is thrown before any statement touches this.stats
importAllLoad(why, st) == [stats |-> st, pc |-> "thrown"]

\* a variant in which the dry run does not return and goes on to the batches
importAllLoadedNoReturn(o, cs, st) ==
    LET st1 == [st EXCEPT !.total = Len(cs)]
    IN IF TruthyFlag(o.dryRun)
       THEN [stats |-> analyzeData(cs, st1), pc |-> "loop"]
       ELSE [stats |-> st1, pc |-> "loop"]

\* whether the loop of createBatches ends (lines 95-97): i starts at 0 and
\* grows by batchSize until it reaches clients.length
createBatchesEnds(cs, batchSize) == Len(cs) = 0 \/ batchSize > 0

\* importAll after the dataset is loaded: the dry run returns the analysis,
\* a real run goes to the batch loop
importAllLoaded(o, cs, st) ==
    LET st1 == [st EXCEPT !.total = Len(cs)]
    IN IF TruthyFlag(o.dryRun)
       THEN [stats |-> analyzeData(cs, st1), pc |-> "returned"]
       ELSE IF createBatchesEnds(cs, batchSizeOf(o))
       THEN [stats |-> st1, pc |-> "loop"]
       ELSE [stats |-> st1, pc |-> "createBatches"]

\* a variant that counts a record without key as skipped
processClientStartSkipped(c) ==
    IF ~Truthy(c.id)
    THEN [rpc |-> "ret_nokey", inc |-> "skipped"]
    ELSE [rpc |-> "check", inc |-> "none"]

\* processClient up to its first await
processClientStart(c) ==
    IF ~Truthy(c.id)
    THEN [rpc |-> "ret_nokey", inc |-> "errors"]
    ELSE [rpc |-> "check", inc |-> "none"]

\* a variant that lets updateExisting win over skipDuplicates
processClientCheckedUpdateFirst(o, err, existingClient) ==
    IF err THEN [rpc |-> "catch_check", inc |-> "errors"]
    ELSE IF existingClient
    THEN IF TruthyFlag(o.updateExisting)
         THEN [rpc |-> "update", inc |-> "none"]
         ELSE IF TruthyFlag(o.skipDuplicates)
         THEN [rpc |-> "ret_skipDup", inc |-> "skipped"]
         ELSE [rpc |-> "ret_skipElse", inc |-> "skipped"]
    ELSE [rpc |-> "insert", inc |-> "none"]

\* a variant that inserts without looking at the answer of the existence check
processClientCheckedAlwaysInsert(o, err, existingClient) ==
    IF err THEN [rpc |-> "catch_check", inc |-> "errors"]
    ELSE [rpc |-> "insert", inc |-> "none"]

\* a variant that counts a record found in the table under duplicates too
processClientCheckedDuplicates(o, err, existingClient) ==
    IF err THEN [rpc |-> "catch_check", inc |-> "errors"]
    ELSE IF existingClient
    THEN IF TruthyFlag(o.skipDuplicates)
         THEN [rpc |-> "ret_skipDup", inc |-> "duplicates"]
         ELSE IF TruthyFlag(o.updateExisting)
         THEN [rpc |-> "update", inc |-> "none"]
         ELSE [rpc |-> "ret_skipElse", inc |-> "duplicates"]
    ELSE [rpc |-> "insert", inc |-> "none"]

\* processClient once checkExistingClient has thrown (err) or answered
\* (existingClient: whether a row was found)
processClientChecked(o, err, existingClient) ==
    IF err THEN [rpc |-> "catch_check", inc |-> "errors"]
    ELSE IF existingClient
    THEN IF TruthyFlag(o.skipDuplicates)
         THEN [rpc |-> "ret_skipDup", inc |-> "skipped"]
         ELSE IF TruthyFlag(o.updateExisting)
         THEN [rpc |-> "update", inc |-> "none"]
         ELSE [rpc |-> "ret_skipElse", inc |-> "skipped"]
    ELSE [rpc |-> "insert", inc |-> "none"]

\* a variant whose catch block forgets this.stats.errors++
processClientInsertedUncounted(err) ==
    IF err THEN [rpc |-> "catch_insert", inc |-> "none"]
    ELSE [rpc |-> "ret_inserted", inc |-> "imported"]

\* a variant whose catch counts the record under skipped
processClientInsertedSkipped(err) ==
    IF err THEN [rpc |-> "catch_insert", inc |-> "skipped"]
    ELSE [rpc |-> "ret_inserted", inc |-> "imported"]

\* processClient once insertClient has thrown (err) or resolved
processClientInserted(err) ==
    IF err THEN [rpc |-> "catch_insert", inc |-> "errors"]
    ELSE [rpc |-> "ret_inserted", inc |-> "imported"]

\* a variant without the try/catch: the error of updateClient rejects the
\* promise of processClient
processClientUpdatedUncaught(err) ==
    IF err THEN [rpc |-> "rejected", inc |-> "none"]
    ELSE [rpc |-> "ret_updated", inc |-> "imported"]

\* processClient once updateClient has thrown (err) or resolved
processClientUpdated(err) ==
    IF err THEN [rpc |-> "catch_update", inc |-> "errors"]
    ELSE [rpc |-> "ret_updated", inc |-> "imported"]

\* a table whose client_id is not UNIQUE
UniqueNotEnforced(t, c) == FALSE

\* easypay_clients: client_id TEXT UNIQUE NOT NULL, email TEXT NOT NULL
UniqueViolated(t, c) == RowsOf(t, c.id) # {}
NotNullViolated(c) == c.email = Undefined

\* a variant of the command line tool whose --update-existing leaves
\* skipDuplicates at true
CliOptionsSkipKept(args) ==
    [batchSize |-> IF TruthyNum(args.batchSize) THEN args.batchSize ELSE <<DefaultBatchSize>>,
     skipDuplicates |-> "true",
     updateExisting |-> IF args.updateExisting = "true" THEN "true" ELSE "false",
     dryRun |-> IF args.dryRun = "true" THEN "true" ELSE "false"]
\* main() of the command line tool: the options it makes of its arguments
CliOptions(args) ==
    [batchSize |-> IF TruthyNum(args.batchSize) THEN args.batchSize ELSE <<DefaultBatchSize>>,
     skipDuplicates |-> IF args.updateExisting = "true" THEN "false" ELSE "true",
     updateExisting |-> IF args.updateExisting = "true" THEN "true" ELSE "false",
     dryRun |-> IF args.dryRun = "true" THEN "true" ELSE "false"]

\* the handler of POST /easypay/import: the options it makes of req.body
RouteOptions(body) ==
    [batchSize |-> IF TruthyNum(body.batchSize) THEN body.batchSize ELSE <<DefaultBatchSize>>,
     skipDuplicates |-> IF body.skipDuplicates # "false" THEN "true" ELSE "false",
     updateExisting |-> IF TruthyFlag(body.updateExisting) THEN body.updateExisting ELSE "false",
     dryRun |-> IF TruthyFlag(body.dryRun) THEN body.dryRun ELSE "false"]

\* a variant of getStats that returns this.stats itself
getStatsLive(st) == Live
\* getStats: { ...this.stats }, a new object with the six counters copied
getStats(st) == Own(st)

\* a variant of resetStats that leaves total as it is
resetStatsTotalKept(st) == [ZeroStats EXCEPT !.total = st.total]
\* resetStats: the object it assigns to this.stats
resetStats(st) == ZeroStats

\* what a held object h is once this.stats (with counters st) has been
\* replaced by another object: the object it was, with the counters it had
Detached(h, st) == IF h.held = "live" THEN Own(st) ELSE h

\* a variant of the INSERT that resolves without writing the row
insertClientLost(t, c) == t

\* INSERT INTO easypay_clients and UPDATE easypay_clients ... WHERE client_id = ?
insertClient(t, c) == t \cup {c}
updateClient(t, c) == {IF r.id = c.id THEN c ELSE r : r \in t}

\* ------------------------------------------------------------------ Init

Datasets(C, n) == UNION {[1..m -> C] : m \in 0..n}
Tables == {{OldRow(k) : k \in S} : S \in SUBSET StoreKeys}

\* importAll's default parameter, options = {}
NoOptions ==
    [batchSize |-> <<>>, skipDuplicates |-> Undefined,
     updateExisting |-> Undefined, dryRun |-> Undefined]

\* the importer just constructed, for a file holding cs and a table holding t
Constructed(cs, t) ==
    /\ clients = cs
    /\ store = t
    /\ stats = ZeroStats
    /\ pc = "idle"
    /\ options = NoOptions
    /\ bi = 1
    /\ rpc = [i \in 1..Len(cs) |-> "new"]
    /\ calls = 0
    /\ store0 = t
    /\ stats0 = ZeroStats
    /\ failed = {}
    /\ source = "none"
    /\ req = Direct
    /\ ret = NotHeld
    /\ snap = NotHeld
    /\ api = [n |-> 0, last |-> "none"]
    /\ pushed = 0
    /\ other = [id |-> 2, stats |-> ZeroStats, pc |-> "idle", options |-> NoOptions,
                bi |-> 1, rpc |-> [i \in 1..Len(cs) |-> "new"], calls |-> 0,
                store0 |-> t, stats0 |-> ZeroStats, failed |-> {}, source |-> "none",
                ret |-> NotHeld, second |-> 0]

Init == \E cs \in Datasets(ClientsSpec, MaxLen), t \in Tables : Constructed(cs, t)
InitSeq == \E cs \in Datasets(ClientsSeq, MaxLenSeq), t \in Tables : Constructed(cs, t)
InitDry == \E cs \in Datasets(Clients, MaxLenDry) : Constructed(cs, {})
InitApi == \E cs \in Datasets(ClientsApi, MaxLenApi), t \in TablesApi : Constructed(cs, t)
InitCli == \E cs \in Datasets(ClientsCli, MaxLenCli), t \in Tables : Constructed(cs, t)
InitHttp == \E cs \in Datasets(ClientsHttp, MaxLenHttp), t \in Tables : Constructed(cs, t)
InitJoin == \E cs \in Datasets(ClientsJoin, MaxLenJoin), t \in Tables : Constructed(cs, t)
InitDup == \E cs \in Datasets(ClientsJoin, MaxLenDup), t \in Tables : Constructed(cs, t)
InitSize == \E cs \in Datasets(ClientsJoin, MaxLenSize), t \in Tables : Constructed(cs, t)
InitTwo == \E cs \in Datasets(ClientsTwo, MaxLenTwo), t \in TablesApi : Constructed(cs, t)
InitBatch == \E cs \in Datasets(ClientsBatch, MaxLenBatch) : Constructed(cs, {})

\* --------------------------------------------------------------- actions

\* importAll(o), from its first line to the first await (or to the return of
\* the dry run, which awaits nothing)
ImportAll(o) ==
    /\ pc \in {"idle", "returned", "thrown"}
    /\ calls' = calls + 1
    /\ options' = o
    /\ store0' = store
    /\ stats0' = stats
    /\ failed' = {}
    /\ rpc' = [i \in 1..Len(clients) |-> "new"]
    /\ bi' = 1
    /\ LET to == importAllLoaded(o, clients, stats)
       IN /\ stats' = to.stats
          /\ pc' = to.pc
          /\ ret' = IF to.pc = "returned" THEN Live ELSE ret
    /\ source' = "loaded"
    /\ UNCHANGED <<clients, store, snap, api,
                   pushed, other>>

\* importAll(o) when the file at jsonPath is not there or is not JSON: the
\* throw, the catch that logs and rethrows, the caller's rejected promise
ImportAllThrows(o, why) ==
    /\ pc \in {"idle", "returned", "thrown"}
    /\ calls' = calls + 1
    /\ options' = o
    /\ store0' = store
    /\ stats0' = stats
    /\ failed' = {}
    /\ rpc' = [i \in 1..Len(clients) |-> "new"]
    /\ bi' = 1
    /\ LET to == importAllLoad(why, stats)
       IN stats' = to.stats /\ pc' = to.pc
    /\ source' = why
    /\ UNCHANGED <<clients, store, ret, snap, api,
                   pushed, other>>

\* A callback of the store and code of the caller run only while no code of
\* importAll does: before and after an importAll, and while it awaits a batch.
CallerRuns == pc \in {"idle", "await", "returned", "thrown"}

\* the batch loop finds another batch: processBatch starts its batch.map
ProcessBatch ==
    /\ pc = "loop"
    /\ bi <= Len(Batches)
    /\ pc' = "map"
    /\ UNCHANGED <<source, clients, store, stats, options, bi, rpc, calls, store0, stats0, failed,
                   req, ret, snap, api,
                   pushed, other>>

\* batch.map calls processClient(client) for the next record of the batch:
\* processClient runs up to the await of the existence check
ProcessClient(i) ==
    /\ pc = "map"
    /\ i \in InBatch(bi)
    /\ rpc[i] = "new"
    /\ \A j \in InBatch(bi) : j < i => rpc[j] # "new"
    /\ LET to == processClientStart(clients[i])
       IN /\ stats' = Inc(stats, to.inc)
          /\ rpc' = [rpc EXCEPT ![i] = to.rpc]
    /\ pc' = IF \E j \in InBatch(bi) : j > i THEN "map" ELSE "await"
    /\ UNCHANGED <<source, clients, store, options, bi, calls, store0, stats0, failed,
                   req, ret, snap, api,
                   pushed, other>>

\* the SELECT of checkExistingClient is answered (err: the store fails it)
\* and processClient goes on to its next await or to its end
CheckExistingClient(i, err) ==
    /\ CallerRuns
    /\ rpc[i] = "check"
    /\ LET to == processClientChecked(options, err, RowsOf(store, clients[i].id) # {})
       IN /\ stats' = Inc(stats, to.inc)
          /\ rpc' = [rpc EXCEPT ![i] = to.rpc]
    /\ failed' = IF err THEN failed \cup {i} ELSE failed
    /\ UNCHANGED <<source, clients, store, pc, options, bi, calls, store0, stats0,
                   req, ret, snap, api,
                   pushed, other>>

\* the INSERT of insertClient is answered (err: the store fails it for a
\* reason of its own; the constraints of the table fail it as well)
InsertClient(i, err) ==
    /\ CallerRuns
    /\ rpc[i] = "insert"
    /\ LET c == clients[i]
           rejected == err \/ NotNullViolated(c) \/ UniqueViolated(store, c)
           to == processClientInserted(rejected)
       IN /\ store' = IF rejected THEN store ELSE insertClient(store, c)
          /\ stats' = Inc(stats, to.inc)
          /\ rpc' = [rpc EXCEPT ![i] = to.rpc]
          /\ failed' = IF err \/ NotNullViolated(c) THEN failed \cup {i} ELSE failed
    /\ UNCHANGED <<source, clients, pc, options, bi, calls, store0, stats0,
                   req, ret, snap, api,
                   pushed, other>>

\* the UPDATE of updateClient is answered
UpdateClient(i, err) ==
    /\ CallerRuns
    /\ rpc[i] = "update"
    /\ LET c == clients[i]
           rejected == err \/ NotNullViolated(c)
           to == processClientUpdated(rejected)
       IN /\ store' = IF rejected THEN store ELSE updateClient(store, c)
          /\ stats' = Inc(stats, to.inc)
          /\ rpc' = [rpc EXCEPT ![i] = to.rpc]
          /\ failed' = IF rejected THEN failed \cup {i} ELSE failed
    /\ UNCHANGED <<source, clients, pc, options, bi, calls, store0, stats0,
                   req, ret, snap, api,
                   pushed, other>>

\* a variant of the join that does not wait for the records of the batch
AllSettledNoWait ==
    /\ pc = "await"
    /\ bi' = bi + 1
    /\ pc' = "loop"
    /\ UNCHANGED <<source, clients, store, stats, options, rpc, calls, store0, stats0, failed,
                   req, ret, snap, api,
                   pushed, other>>

\* a variant of the join that is over as soon as a record of the batch failed
AllSettledFirstFailure ==
    /\ pc = "await"
    /\ \/ \A i \in InBatch(bi) : rpc[i] \in Settled
       \/ \E i \in InBatch(bi) : rpc[i] \in {"ret_nokey", "catch_check", "catch_insert",
                                              "catch_update"}
    /\ bi' = bi + 1
    /\ pc' = "loop"
    /\ UNCHANGED <<source, clients, store, stats, options, rpc, calls, store0, stats0, failed,
                   req, ret, snap, api,
                   pushed, other>>

\* Promise.allSettled resolves: the loop goes to the next batch
AllSettled ==
    /\ pc = "await"
    /\ \A i \in InBatch(bi) : rpc[i] \in Settled
    /\ bi' = bi + 1
    /\ pc' = "loop"
    /\ UNCHANGED <<source, clients, store, stats, options, rpc, calls, store0, stats0, failed,
                   req, ret, snap, api,
                   pushed, other>>

\* the loop is over: processingTime is set and this.stats is returned
Return(elapsed) ==
    /\ pc = "loop"
    /\ bi > Len(Batches)
    /\ stats' = [stats EXCEPT !.processingTime = elapsed]
    /\ pc' = "returned"
    /\ ret' = Live
    /\ UNCHANGED <<source, clients, store, options, bi, rpc, calls, store0, stats0, failed,
                   req, snap, api,
                   pushed, other>>

\* the first importAll on the importer, a further one after it returned, and
\* a first importAll that is a dry run
FirstImport == calls = 0 /\ req' = req /\ \E o \in ImportOptions : ImportAll(o)
AgainImport ==
    calls \in 1..(MaxCalls - 1) /\ req' = req /\ \E o \in ImportOptions : ImportAll(o)
DryImport ==
    calls = 0 /\ req' = req /\ \E o \in ImportOptions : TruthyFlag(o.dryRun) /\ ImportAll(o)
\* importAll, failing or not, called on an importer that ran before or not
ApiImport ==
    /\ calls < MaxCallsApi
    /\ req' = req
    /\ \E o \in ApiOptions : ImportAll(o)
ApiImportThrows ==
    /\ calls < MaxCallsApi
    /\ req' = req
    /\ \E o \in ApiOptions, why \in SourceFailures : ImportAllThrows(o, why)

\* importer.getStats()
GetStats ==
    /\ CallerRuns
    /\ api.n < MaxApi
    /\ snap' = getStats(stats)
    /\ api' = [n |-> api.n + 1, last |-> "getStats"]
    /\ UNCHANGED <<source, clients, store, stats, pc, options, bi, rpc, calls, store0, stats0,
                   failed, req, ret,
                   pushed, other>>

\* importer.resetStats()
ResetStats ==
    /\ CallerRuns
    /\ api.n < MaxApi
    /\ stats' = resetStats(stats)
    /\ ret' = Detached(ret, stats)
    /\ snap' = Detached(snap, stats)
    /\ api' = [n |-> api.n + 1, last |-> "resetStats"]
    /\ UNCHANGED <<source, clients, store, pc, options, bi, rpc, calls, store0, stats0, failed, req,
                   pushed, other>>

\* the caller writes to the object getStats gave it: s.total++
CallerWrites ==
    /\ CallerRuns
    /\ api.n < MaxApi
    /\ snap.held # "none"
    /\ IF snap.held = "live"
       THEN stats' = Inc(stats, "total") /\ snap' = snap
       ELSE stats' = stats /\ snap' = Own(Inc(snap.val, "total"))
    /\ api' = [n |-> api.n + 1, last |-> "write"]
    /\ UNCHANGED <<source, clients, store, pc, options, bi, rpc, calls, store0, stats0, failed,
                   req, ret,
                   pushed, other>>

\* the command line tool is run: it constructs an importer and calls
\* importAll with the options made of its arguments
CliImport ==
    /\ calls = 0
    /\ \E args \in CliArgs : req' = args /\ ImportAll(CliOptions(args))

\* its importAll finds no file, or no JSON in it: main() logs and exits
CliImportThrows ==
    /\ calls = 0
    /\ \E args \in CliArgs, why \in SourceFailures :
          req' = args /\ ImportAllThrows(CliOptions(args), why)

\* POST /easypay/import is handled: a new importer, importAll with the options
\* made of the body; the response is sent when importAll has returned
HttpImport ==
    /\ calls = 0
    /\ \E body \in Bodies : req' = body /\ ImportAll(RouteOptions(body))
\* its importAll throws: the catch of the handler answers 500
HttpImportThrows ==
    /\ calls = 0
    /\ \E body \in Bodies, why \in SourceFailures :
          req' = body /\ ImportAllThrows(RouteOptions(body), why)

\* a first importAll of a real run, up to the batches createBatches made of
\* the dataset, for every batchSize from none given (0) to MaxBatchSize
BatchImport ==
    /\ calls = 0
    /\ req' = req
    /\ \E b \in 0..MaxBatchSize :
          ImportAll([batchSize |-> <<b>>, skipDuplicates |-> Undefined,
                     updateExisting |-> Undefined, dryRun |-> Undefined])
\* a first importAll of a real run, and one that finds no file, or no JSON
\* in it
JoinImport == calls = 0 /\ req' = req /\ \E o \in JoinOptions : ImportAll(o)
JoinImportThrows ==
    /\ calls = 0
    /\ req' = req
    /\ \E o \in JoinOptions, why \in SourceFailures : ImportAllThrows(o, why)

Next ==
    \/ FirstImport
    \/ ProcessBatch
    \/ \E i \in 1..Len(clients) : ProcessClient(i)
    \/ \E i \in 1..Len(clients), err \in BOOLEAN : CheckExistingClient(i, err)
    \/ \E i \in 1..Len(clients), err \in BOOLEAN : InsertClient(i, err)
    \/ \E i \in 1..Len(clients), err \in BOOLEAN : UpdateClient(i, err)
    \/ AllSettled
    \/ \E e \in 0..MaxElapsed : Return(e)

NextSeq == Next \/ AgainImport

\* createBatches, its loop one more time round: i + batchSize is still less
\* than clients.length and one more slice is pushed
CreateBatchesPush ==
    /\ pc = "createBatches"
    /\ pushed < MaxPushed
    /\ pushed' = pushed + 1
    /\ UNCHANGED <<source, clients, store, stats, pc, options, bi, rpc, calls, store0,
                   stats0, failed, req, ret, snap, api, other>>
\* there is no room for one more slice
CreateBatchesExhausts(how) ==
    /\ pc = "createBatches"
    /\ pushed = MaxPushed
    /\ pc' = how
    /\ UNCHANGED <<source, clients, store, stats, options, bi, rpc, calls, store0,
                   stats0, failed, req, ret, snap, api, pushed, other>>

\* a first importAll with any batch size, its source loading or not
SizeImport == calls = 0 /\ req' = req /\ \E o \in SizeOptions : ImportAll(o)
SizeImportThrows ==
    /\ calls = 0
    /\ req' = req
    /\ \E o \in SizeOptions, why \in SourceFailures : ImportAllThrows(o, why)

\* what importAll and the store do once importAll was called
StepSize ==
    \/ ProcessBatch
    \/ \E i \in 1..Len(clients) : ProcessClient(i)
    \/ \E i \in 1..Len(clients), err \in BOOLEAN : CheckExistingClient(i, err)
    \/ \E i \in 1..Len(clients), err \in BOOLEAN : InsertClient(i, err)
    \/ \E i \in 1..Len(clients), err \in BOOLEAN : UpdateClient(i, err)
    \/ AllSettled
    \/ \E e \in 0..MaxElapsed : Return(e)
    \/ CreateBatchesPush
    \/ \E how \in Exhaustions : CreateBatchesExhausts(how)

NextSize ==
    \/ SizeImport
    \/ SizeImportThrows
    \/ StepSize

\* the fields of the importer whose code the event loop has been running,
\* as they are kept while it runs code of the other importer
Parked ==
    [id |-> 3 - other.id, stats |-> stats, pc |-> pc, options |-> options, bi |-> bi,
     rpc |-> rpc, calls |-> calls, store0 |-> store0, stats0 |-> stats0,
     failed |-> failed, source |-> source, ret |-> ret, second |-> other.second]
\* the event loop turns to the other importer, which happens only while the
\* first awaits or has nothing to run. When it leaves an importer that has
\* returned for one that was not started, that one is noted as the second.
Switch ==
    /\ CallerRuns
    /\ stats' = other.stats
    /\ pc' = other.pc
    /\ options' = other.options
    /\ bi' = other.bi
    /\ rpc' = other.rpc
    /\ calls' = other.calls
    /\ store0' = other.store0
    /\ stats0' = other.stats0
    /\ failed' = other.failed
    /\ source' = other.source
    /\ ret' = other.ret
    /\ other' = [Parked EXCEPT !.second = IF pc = "returned" /\ other.calls = 0
                                          THEN other.id ELSE @]
    /\ UNCHANGED <<clients, store, req, snap, api, pushed>>
\* the one importAll of an importer of SpecTwo
TwoImport == calls = 0 /\ req' = req /\ \E o \in TwoOptions : ImportAll(o)

NextTwo ==
    \/ TwoImport
    \/ Switch
    \/ ProcessBatch
    \/ \E i \in 1..Len(clients) : ProcessClient(i)
    \/ \E i \in 1..Len(clients), err \in BOOLEAN : CheckExistingClient(i, err)
    \/ \E i \in 1..Len(clients), err \in BOOLEAN : InsertClient(i, err)
    \/ AllSettled
    \/ Return(0)

\* a dry run and then a real run on the same importer
DupDryImport ==
    /\ calls = 0
    /\ req' = req
    /\ \E o \in JoinOptions : ImportAll([o EXCEPT !.dryRun = "true"])
DupRealImport ==
    /\ calls = 1
    /\ req' = req
    /\ \E o \in JoinOptions : ImportAll(o)

NextDup ==
    \/ DupDryImport
    \/ DupRealImport
    \/ ProcessBatch
    \/ \E i \in 1..Len(clients) : ProcessClient(i)
    \/ \E i \in 1..Len(clients), err \in BOOLEAN : CheckExistingClient(i, err)
    \/ \E i \in 1..Len(clients), err \in BOOLEAN : InsertClient(i, err)
    \/ \E i \in 1..Len(clients), err \in BOOLEAN : UpdateClient(i, err)
    \/ AllSettled
    \/ \E e \in 0..MaxElapsed : Return(e)

NextJoin ==
    \/ JoinImport
    \/ JoinImportThrows
    \/ ProcessBatch
    \/ \E i \in 1..Len(clients) : ProcessClient(i)
    \/ \E i \in 1..Len(clients), err \in BOOLEAN : CheckExistingClient(i, err)
    \/ \E i \in 1..Len(clients), err \in BOOLEAN : InsertClient(i, err)
    \/ \E i \in 1..Len(clients), err \in BOOLEAN : UpdateClient(i, err)
    \/ AllSettled
    \/ \E e \in 0..MaxElapsed : Return(e)

NextCli ==
    \/ CliImport
    \/ CliImportThrows
    \/ ProcessBatch
    \/ \E i \in 1..Len(clients) : ProcessClient(i)
    \/ \E i \in 1..Len(clients), err \in BOOLEAN : CheckExistingClient(i, err)
    \/ \E i \in 1..Len(clients), err \in BOOLEAN : InsertClient(i, err)
    \/ \E i \in 1..Len(clients), err \in BOOLEAN : UpdateClient(i, err)
    \/ AllSettled
    \/ \E e \in 0..MaxElapsed : Return(e)

NextHttp ==
    \/ HttpImport
    \/ HttpImportThrows
    \/ ProcessBatch
    \/ \E i \in 1..Len(clients) : ProcessClient(i)
    \/ \E i \in 1..Len(clients), err \in BOOLEAN : CheckExistingClient(i, err)
    \/ \E i \in 1..Len(clients), err \in BOOLEAN : InsertClient(i, err)
    \/ \E i \in 1..Len(clients), err \in BOOLEAN : UpdateClient(i, err)
    \/ AllSettled
    \/ \E e \in 0..MaxElapsed : Return(e)

NextApi ==
    \/ ApiImport
    \/ ApiImportThrows
    \/ ProcessBatch
    \/ \E i \in 1..Len(clients) : ProcessClient(i)
    \/ \E i \in 1..Len(clients), err \in BOOLEAN : CheckExistingClient(i, err)
    \/ \E i \in 1..Len(clients), err \in BOOLEAN : InsertClient(i, err)
    \/ AllSettled
    \/ \E e \in 0..MaxElapsed : Return(e)
    \/ GetStats
    \/ ResetStats
    \/ CallerWrites

\* one importAll on a newly constructed importer
Spec == Init /\ [][Next]_vars
\* importAll called again and again on the same importer
SpecSeq == InitSeq /\ [][NextSeq]_vars
\* one dry run, over datasets with every kind of key and email
SpecDry == InitDry /\ [][DryImport]_vars
\* one importer and its caller: importAll again and again, with sources that
\* fail to load, getStats and resetStats before, during and after the runs
SpecApi == InitApi /\ [][NextApi]_vars
\* one importAll of a real run on a new importer, its source loading or not
SpecJoin == InitJoin /\ [][NextJoin]_vars
\* one run of the command line tool
SpecCli == InitCli /\ [][NextCli]_vars
\* one POST /easypay/import
SpecHttp == InitHttp /\ [][NextHttp]_vars
\* one importAll with any batch size
SpecSize == InitSize /\ [][NextSize]_vars
\* the same, the event loop running whatever is ready and the store
\* answering every call
SpecTerm == SpecSize /\ WF_vars(StepSize)
\* two importers, one importAll each, on the same table and the same file
SpecTwo == InitTwo /\ [][NextTwo]_vars
\* a dry run followed by a real run
SpecDup == InitDup /\ [][NextDup]_vars
\* createBatches on datasets of up to MaxLenBatch records
SpecBatch == InitBatch /\ [][BatchImport]_vars

\* ================================================================ claims

Real == ~TruthyFlag(options.dryRun)
Returned == pc = "returned"
DefaultPolicy ==
    /\ options.skipDuplicates \in {"true", Undefined}
    /\ options.updateExisting \in {"false", Undefined}
KeysOf(t) == {r.id : r \in t}
CountOf(S) == Cardinality({i \in DOMAIN rpc : rpc[i] \in S})
Skips == {"ret_skipDup", "ret_skipElse"}
Updates == {"update", "ret_updated", "catch_update"}
Catches == {"catch_check", "catch_insert", "catch_update"}

\* the counters of the current real run are the counters at its start plus
\* one per record that took the matching path
Counted ==
    /\ stats.imported = stats0.imported + CountOf({"ret_inserted", "ret_updated"})
    /\ stats.skipped = stats0.skipped + CountOf(Skips)
    /\ stats.errors = stats0.errors + CountOf(Catches \cup {"ret_nokey"})

\* C1 -- counter conservation: when a real (non-dry-run) importAll on a newly
\* constructed importer has returned, total is the number of records of the
\* dataset and imported + skipped + errors = total, for every dataset, batch
\* size, policy, initial table and pattern of store failures.
C1_CounterConservation ==
    (Returned /\ Real /\ calls = 1) =>
        /\ stats.total = Len(clients)
        /\ stats.imported + stats.skipped + stats.errors = stats.total

\* a returned real run that counted under all three counters, one of them for
\* a call the store failed
C1_Witness ==
    /\ Returned /\ Real /\ calls = 1
    /\ stats.imported > 0 /\ stats.skipped > 0 /\ stats.errors > 0
    /\ failed # {}

\* C2 -- one Stats instance per invocation: the stats every importAll returns
\* count the records of that call only: imported + skipped + errors = total
\* after a real run, imported = 0 and errors = 0 after a dry run, also when
\* the importer has run before.
C2_StatsPerInvocation ==
    Returned =>
        IF Real
        THEN stats.imported + stats.skipped + stats.errors = stats.total
        ELSE stats.imported = 0 /\ stats.errors = 0

\* the record's existence check has answered, and found a row: it took one of
\* the paths of `if (existingClient)`, or the key was in the table all along
FoundExisting(i) ==
    \/ rpc[i] \in Skips \cup Updates
    \/ /\ clients[i].id \in KeysOf(store0)
       /\ rpc[i] \in (Settled \cup Pending) \ {"check", "catch_check"}

C4_SkipOnDuplicate ==
    (Real /\ DefaultPolicy) =>
        /\ Counted
        /\ \A i \in DOMAIN rpc :
            (Truthy(clients[i].id) /\ clients[i].id \in KeysOf(store0)) =>
                /\ rpc[i] \in {"new", "check", "catch_check"} \cup Skips
                /\ rpc[i] = "catch_check" => i \in failed
                /\ Returned => rpc[i] \in Settled
                /\ RowsOf(store, clients[i].id) = RowsOf(store0, clients[i].id)

\* a returned default run that skipped a record whose key was stored, and
\* wrote another record to the table
C4_Witness ==
    /\ Real /\ DefaultPolicy /\ Returned
    /\ \E i \in DOMAIN rpc :
        /\ clients[i].id \in KeysOf(store0)
        /\ rpc[i] \in Skips
        /\ RowsOf(store, clients[i].id) = {OldRow(clients[i].id)}
    /\ store # store0
    /\ stats.skipped > 0

DistinctKeys == \A i, j \in DOMAIN clients : i # j => clients[i].id # clients[j].id
AllKeysPresent == \A i \in DOMAIN clients : Truthy(clients[i].id)

\* C5 -- insert on absent: a real run with the default policy, over a dataset
\* of N records with pairwise distinct non-empty keys, on a table that was
\* empty and with no store call failing, returns imported = N, skipped = 0,
\* errors = 0 and leaves exactly one row for each of the N keys (the record
\* of that key) and no other row, for every batch size.
C5_InsertOnAbsent ==
    (Returned /\ Real /\ calls = 1 /\ DefaultPolicy /\ store0 = {} /\ failed = {}
        /\ DistinctKeys /\ AllKeysPresent) =>
        /\ stats.imported = Len(clients) /\ stats.skipped = 0 /\ stats.errors = 0
        /\ store = Range(clients)
        /\ \A i \in DOMAIN clients : RowsOf(store, clients[i].id) = {clients[i]}

\* two records with distinct keys, imported in two batches of one
C5_Witness ==
    /\ Returned /\ Real /\ DefaultPolicy /\ store0 = {} /\ failed = {}
    /\ DistinctKeys /\ AllKeysPresent
    /\ Len(clients) = 2 /\ Len(Batches) = 2
    /\ stats.imported = 2

NoKey(i) == ~Truthy(clients[i].id)

\* C6 -- key presence: in a real run a record whose key is missing or empty
\* takes the missing-key return and no other path, the step that processes it
\* adds 1 to errors and changes no other counter, and the record is processed
\* by the time importAll returns, whatever the options and the table.
C6_KeyPresence ==
    /\ [](Real => \A i \in DOMAIN rpc : NoKey(i) =>
            /\ rpc[i] \in {"new", "ret_nokey"}
            /\ Returned => rpc[i] = "ret_nokey")
    /\ [][\A i \in DOMAIN rpc :
            (NoKey(i) /\ rpc[i] = "new" /\ rpc'[i] # "new") =>
                /\ rpc'[i] = "ret_nokey"
                /\ stats' = [stats EXCEPT !.errors = @ + 1]]_vars

\* a returned real run over one record without key and one with an empty key
C6_Witness ==
    /\ Returned /\ Real /\ Len(clients) = 2
    /\ clients[1].id = Undefined /\ clients[2].id = ""
    /\ rpc = <<"ret_nokey", "ret_nokey">>
    /\ stats.errors = 2 /\ stats.imported = 0 /\ stats.skipped = 0

\* C7 -- dry-run non-mutation: an importAll with dryRun true issues no store
\* call for any record (no SELECT, INSERT or UPDATE) and returns with the
\* table as it was when it was invoked.
C7_DryRunNonMutation ==
    (~Real /\ calls >= 1) =>
        /\ Returned
        /\ \A i \in DOMAIN rpc : rpc[i] = "new"
        /\ store = store0

\* a returned dry run over three records, one with a key the table lacks and
\* one with a key the table holds
C7_Witness ==
    /\ ~Real /\ Returned /\ Len(clients) = 3
    /\ \E i \in DOMAIN clients : Truthy(clients[i].id) /\ clients[i].id \notin KeysOf(store)
    /\ \E i \in DOMAIN clients : clients[i].id \in KeysOf(store)

\* C8 -- dry-run accounting: the stats a dry run returns have total = N (the
\* number of records), imported = 0, errors = 0 and skipped = duplicates.
C8_DryRunAccounting ==
    (~Real /\ Returned /\ calls = 1) =>
        /\ stats.total = Len(clients)
        /\ stats.imported = 0 /\ stats.errors = 0
        /\ stats.skipped = stats.duplicates

\* a returned dry run over three records that found duplicates
C8_Witness ==
    /\ ~Real /\ Returned /\ calls = 1
    /\ Len(clients) = 3 /\ stats.total = 3
    /\ stats.skipped = 2 /\ stats.duplicates = 2

\* the records whose key equals the key of an earlier record, and those whose
\* email is non-empty and equals the email of an earlier record
KeyRepeats(cs) == {i \in DOMAIN cs : \E j \in 1..(i - 1) : cs[j].id = cs[i].id}
EmailRepeats(cs) ==
    {i \in DOMAIN cs : Truthy(cs[i].email) /\ \E j \in 1..(i - 1) : cs[j].email = cs[i].email}

\* C9 -- dry-run duplicate counting: the duplicates of a dry run is the number
\* of records whose key repeats an earlier key plus the number of records
\* whose non-empty email repeats an earlier email; a record can count twice,
\* a record with an empty or missing email never counts for its email.
C9_DuplicateCounting ==
    (~Real /\ Returned) =>
        stats.duplicates = Cardinality(KeyRepeats(clients)) + Cardinality(EmailRepeats(clients))

\* three records: the second repeats key and email of the first and counts
\* twice, the third repeats the key and has no email to count
C9_Witness ==
    /\ ~Real /\ Returned /\ Len(clients) = 3
    /\ 2 \in KeyRepeats(clients) \cap EmailRepeats(clients)
    /\ ~Truthy(clients[3].email) /\ 3 \in KeyRepeats(clients)
    /\ stats.duplicates = 3

SameBatch(i, j) == \E b \in 1..Len(Batches) : {i, j} \subseteq InBatch(b)

\* records i and j are the only two of the dataset with their key, the key is
\* non-empty and was not in the table, both are in one batch, both have
\* settled, and the store failed no call of theirs but for UNIQUE(client_id)
RacePair(i, j) ==
    /\ i < j
    /\ Truthy(clients[i].id) /\ clients[i].id = clients[j].id
    /\ \A k \in DOMAIN clients : clients[k].id = clients[i].id => k \in {i, j}
    /\ clients[i].id \notin KeysOf(store0)
    /\ SameBatch(i, j)
    /\ rpc[i] \in Settled /\ rpc[j] \in Settled
    /\ failed \cap {i, j} = {}

\* C10 as claimed -- same-key race: a pair of same-key records in one batch,
\* key not in the table, always settles as one successful insert and one
\* errors increment.
C10_RaceAlwaysOneError ==
    Real => \A i, j \in DOMAIN rpc :
        RacePair(i, j) => {rpc[i], rpc[j]} = {"ret_inserted", "catch_insert"}

\* what processClient does with a record it finds in the table
ExistingOutcome ==
    IF TruthyFlag(options.skipDuplicates) THEN "ret_skipDup"
    ELSE IF TruthyFlag(options.updateExisting) THEN "ret_updated"
    ELSE "ret_skipElse"

\* C10 as amended -- same-key race: such a pair settles with exactly one
\* successful insert and one row for the key; the other record is counted
\* under errors (its INSERT hits the UNIQUE constraint) or, when its existence
\* check was answered after that insert, is treated as an existing record:
\* skipped, or updated and counted under imported, as the policy says.
C10_RaceOneInsert ==
    Real =>
        /\ Counted
        /\ \A i, j \in DOMAIN rpc :
            RacePair(i, j) =>
                /\ \/ rpc[i] = "ret_inserted" /\ rpc[j] \in {"catch_insert", ExistingOutcome}
                   \/ rpc[j] = "ret_inserted" /\ rpc[i] \in {"catch_insert", ExistingOutcome}
                /\ Cardinality(RowsOf(store, clients[i].id)) = 1

\* the race: both records saw no row, the second INSERT was refused by the
\* UNIQUE constraint alone
C10_Witness ==
    /\ Real /\ Returned
    /\ \E i, j \in DOMAIN rpc :
        /\ RacePair(i, j)
        /\ {rpc[i], rpc[j]} = {"ret_inserted", "catch_insert"}
    /\ stats.imported = 1 /\ stats.errors = 1 /\ stats.skipped = 0

\* C11 (batch coverage): for a dataset of N records and a batch size B >= 1,
\* createBatches returns ceil(N / B) batches, each but the last of exactly B
\* records, none empty, the last of at most B, whose concatenation in order
\* is the dataset; for N = 0 it returns no batch.
RECURSIVE Concat(_)
Concat(bs) == IF bs = <<>> THEN <<>> ELSE Head(bs) \o Concat(Tail(bs))
C11_BatchCoverage ==
    pc = "loop" =>
        LET N == Len(clients)
            B == BatchSize
            bs == createBatches(clients, B)
        IN /\ B >= 1
           /\ Len(bs) = (N + B - 1) \div B
           /\ \A k \in 1..(Len(bs) - 1) : Len(bs[k]) = B
           /\ \A k \in 1..Len(bs) : Len(bs[k]) \in 1..B
           /\ Concat(bs) = clients
           /\ (N = 0 => bs = <<>>)
\* five records cut by twos: two full batches and a last one of one record
C11_Witness ==
    /\ pc = "loop"
    /\ Len(clients) = 5
    /\ BatchSize = 2
    /\ Len(Batches) = 3
    /\ Len(Batches[3]) = 1
    /\ clients[1] # clients[2]

\* C12 (per-record failures never abort the run): once the dataset is loaded,
\* importAll never throws, whatever keys are missing and whatever store calls
\* fail: a throw leaves no record processed, a batch being awaited has each of
\* its records awaiting the store or finished, every record the store failed
\* ended in the catch of processClient, and the errors counter has one count
\* per record without key or caught.
C12_FailuresAbsorbed ==
    /\ pc = "thrown" => \A i \in DOMAIN rpc : rpc[i] = "new"
    /\ pc = "map" => \E i \in InBatch(bi) : rpc[i] = "new"
    /\ pc = "await" => \A i \in InBatch(bi) : rpc[i] \in Pending \cup Settled
    /\ Real /\ pc \in {"loop", "map", "await", "returned"} =>
           /\ \A i \in failed : rpc[i] \in Catches
           /\ stats.errors = stats0.errors + CountOf(Catches \cup {"ret_nokey"})
    /\ Real /\ Returned => \A i \in DOMAIN rpc : rpc[i] \in Settled
\* a run that returned although the store failed a call for each of its three
\* records: the check of one, the insert of another, the update of the third
C12_Witness ==
    /\ Real
    /\ Returned
    /\ Len(clients) = 3
    /\ failed = 1..3
    /\ stats.errors = 3
    /\ {rpc[i] : i \in 1..3} = Catches

\* C13 (source-load failure is fatal and free of side effects): an importAll
\* whose source file is missing or is not JSON ends in the throw, with every
\* counter as it was before the call and the table untouched, and no record
\* of that call is ever handed to processClient, so no store call is made.
C13_SourceLoadFailure ==
    /\ [](source \in SourceFailures =>
             /\ pc = "thrown"
             /\ store = store0
             /\ \A i \in DOMAIN rpc : rpc[i] = "new")
    /\ [][calls' # calls /\ source' \in SourceFailures =>
             /\ pc' = "thrown"
             /\ stats' = stats
             /\ store' = store]_vars
\* the second importAll threw, and the counters are the ones the first left
C13_Witness ==
    /\ calls = 2
    /\ source = "missing"
    /\ pc = "thrown"
    /\ stats.total = 1
    /\ stats.errors = 1
    /\ stats = stats0

\* the counters a caller reads in the object it holds
View(h) == IF h.held = "live" THEN stats ELSE h.val
\* a step in which an importAll hands its result to the caller
HandsOver == pc' = "returned" /\ (pc # "returned" \/ calls' # calls)

\* C14 (stats returned by value): the object importAll handed to its caller is
\* a copy, so that no later step of the importer (a further importAll, a
\* record being processed, resetStats) changes a counter the caller reads in
\* it; only the return of an importAll gives the caller new values.
C14_ReturnedByValue ==
    [][ret.held # "none" /\ ~HandsOver => View(ret)' = View(ret)]_vars

\* a step that is a call of getStats or of resetStats or a write of the caller
ApiStep(name) == api' # api /\ api'.last = name

\* C15 (getStats returns a snapshot copy): getStats gives its caller an
\* object with the current counters and starts no import and no store call;
\* afterwards no step of the importer (an increment, a further importAll,
\* resetStats) changes what the caller reads in that object, and the caller
\* writing to it changes no counter of the importer.
C15_SnapshotCopy ==
    [][/\ ApiStep("getStats") =>
             /\ View(snap)' = stats
             /\ UNCHANGED <<stats, store, pc, rpc, bi, calls,
                   pushed, other>>
       /\ ApiStep("write") => stats' = stats
       /\ ~ApiStep("getStats") /\ ~ApiStep("write") => View(snap)' = View(snap)]_vars
\* a snapshot taken while the record was awaiting the store, read after the
\* record was counted and the run returned
C15_Witness ==
    /\ snap.held = "own"
    /\ snap.val.total = 1
    /\ snap.val.imported = 0
    /\ stats.imported = 1
    /\ Returned

\* C16 (resetStats zeroes all counters): whatever imports came before, and
\* whether or not one is in progress, resetStats leaves this.stats with its
\* six counters at 0 and makes no store call and no step of an import.
C16_ResetZeroes ==
    [][ApiStep("resetStats") =>
           /\ stats' = ZeroStats
           /\ UNCHANGED <<store, pc, rpc, bi, calls,
                   pushed, other>>]_vars
\* counters that an import had raised, reset and then read by getStats
C16_Witness ==
    /\ api = [n |-> 2, last |-> "getStats"]
    /\ ret.held = "own"
    /\ ret.val.errors = 1
    /\ stats = ZeroStats
    /\ snap = Own(ZeroStats)

\* a returned real run that the command line tool started with --update-existing
CliUpdateRun ==
    /\ req.via = "cli"
    /\ req.updateExisting = "true"
    /\ Real
    /\ Returned
\* the records that found their key in the table and whose update succeeded
Updated == {i \in DOMAIN rpc : rpc[i] = "ret_updated"}
\* record i found its key or would have: the key was in the table at the
\* start, and the store failed no call made for i
ExistedAndNotFailed(i) == clients[i].id \in KeysOf(store0) /\ i \notin failed

\* C17 as stated (command line update mode): started with --update-existing,
\* every input record whose key is in the store, and whose update does not
\* fail, is counted under imported, and afterwards the stored record of that
\* key has the fields of that input record, the same key, and is the only one
\* of that key.
C17_CliUpdatesEveryRecord ==
    CliUpdateRun =>
        /\ \A i \in DOMAIN rpc : ExistedAndNotFailed(i) => i \in Updated
        /\ stats.imported >= Cardinality(Updated)
        /\ \A i \in Updated : RowsOf(store, clients[i].id) = {clients[i]}

\* C17 as amended: ... the stored record of that key has the fields of that
\* input record or, when several input records carry the key, of one of those
\* that were updated; the key is unchanged and no second record is made.
C17_CliUpdatesExisting ==
    CliUpdateRun =>
        /\ \A i \in DOMAIN rpc : ExistedAndNotFailed(i) => i \in Updated
        /\ stats.imported = CountOf({"ret_updated", "ret_inserted"})
        /\ \A i \in Updated :
              \E j \in Updated :
                  /\ clients[j].id = clients[i].id
                  /\ RowsOf(store, clients[i].id) = {clients[j]}
        /\ \A i \in Updated :
              (\A j \in Updated : clients[j].id = clients[i].id => j = i)
                  => RowsOf(store, clients[i].id) = {clients[i]}
\* two records of two keys, both in the table before the run, both updated
C17_Witness ==
    /\ CliUpdateRun
    /\ Len(clients) = 2
    /\ Updated = {1, 2}
    /\ clients[1].id # clients[2].id
    /\ stats.imported = 2
    /\ store = {clients[1], clients[2]}
    /\ store0 = {OldRow("A"), OldRow("B")}

\* C18 (HTTP update mode): a POST /easypay/import whose body has updateExisting
\* true and no skipDuplicates makes the importer update the clients that
\* exist instead of skipping them: every record whose key is in the table,
\* and for which the store fails no call, is updated.
C18_HttpUpdatesExisting ==
    /\ req.via = "http"
    /\ req.updateExisting = "true"
    /\ req.skipDuplicates = Undefined
    /\ Real
    /\ Returned
    => \A i \in DOMAIN rpc : ExistedAndNotFailed(i) => i \in Updated

\* the records of the batches before batch b of bs, and those of batch b
Before(bs, b) == 1..Offset(bs, b)
Of(bs, b) == (Offset(bs, b) + 1)..(Offset(bs, b) + Len(bs[b]))
Dispatched(i) == rpc[i] # "new"

\* C19 (batches are strictly sequential): in a real run no record of a batch
\* is handed to processClient, so no store call is made for it, before every
\* record of every earlier batch has finished its processing; the records of
\* one batch have their store calls answered in any order (witness).
C19_BatchesSequential ==
    Real /\ pc \in {"loop", "map", "await", "returned"} =>
        LET bs == Batches
        IN \A b \in 1..Len(bs) :
               (\E j \in Of(bs, b) : Dispatched(j))
                   => \A i \in Before(bs, b) : rpc[i] \in Settled
\* batch 1 of two records is over, the second having been answered before the
\* first was; batch 2 has its record awaiting the store
C19_Witness ==
    /\ Real
    /\ Len(clients) = 3
    /\ BatchSize = 2
    /\ bi = 2
    /\ rpc[1] = "ret_inserted" /\ rpc[2] = "ret_inserted"
    /\ store = {clients[1], clients[2]}
    /\ rpc[3] = "check"

\* C20 (wait-for-all join): the loop goes past a batch only when every record
\* of it has finished, also when an earlier record of the batch failed;
\* importAll returns only when every record of the dataset has finished; and
\* once it has returned no counter changes.
C20_WaitForAllJoin ==
    /\ [](Real /\ pc \in {"loop", "map", "await", "returned"} =>
             \A i \in Before(Batches, bi) : rpc[i] \in Settled)
    /\ [](Real /\ Returned => \A i \in DOMAIN rpc : rpc[i] \in Settled)
    /\ [][pc = "returned" /\ calls' = calls => stats' = stats]_vars
\* a returned run whose first record failed at its existence check and whose
\* second record, of the same batch, was inserted all the same
C20_Witness ==
    /\ Real
    /\ Returned
    /\ Len(clients) = 2
    /\ SameBatch(1, 2)
    /\ rpc[1] = "catch_check"
    /\ rpc[2] = "ret_inserted"
    /\ stats.errors = 1 /\ stats.imported = 1

\* the records of r that have finished, and the sum of the three counters
NSettled(r) == Cardinality({i \in DOMAIN r : r[i] \in Settled})
Sum(st) == st.imported + st.skipped + st.errors

\* C21 (exactly-once accounting): in a real run every step in which a record
\* finishes adds 1 to exactly one of imported, skipped and errors, no other
\* step of the run changes these counters, a finished record is never counted
\* again, total and duplicates stay as they are, and when the loop is past
\* batches holding k records in all the three counters have grown by k.
C21_ExactlyOnce ==
    /\ [][calls' = calls =>
             LET n == NSettled(rpc') - NSettled(rpc)
             IN /\ n \in {0, 1}
                /\ stats'.imported - stats.imported \in {0, 1}
                /\ stats'.skipped - stats.skipped \in {0, 1}
                /\ stats'.errors - stats.errors \in {0, 1}
                /\ Sum(stats') - Sum(stats) = n
                /\ stats'.total = stats.total
                /\ stats'.duplicates = stats.duplicates
                /\ \A i \in DOMAIN rpc : rpc[i] \in Settled => rpc'[i] = rpc[i]]_vars
    /\ [](Real /\ pc = "loop" => Sum(stats) = Sum(stats0) + Offset(Batches, bi))
\* a batch of two records answered concurrently and counted under two
\* counters, the third record not yet dispatched
C21_Witness ==
    /\ Real
    /\ pc = "loop"
    /\ bi = 2
    /\ BatchSize = 2
    /\ Len(clients) = 3
    /\ rpc = <<"ret_skipElse", "ret_inserted", "new">>
    /\ stats.imported = 1 /\ stats.skipped = 1 /\ stats.errors = 0

\* the other records of the dataset with the key of record i
KeyMates(i) == {j \in DOMAIN clients \ {i} : clients[j].id = clients[i].id}
\* record j is in a batch before the batch of record i
InEarlierBatch(j, i) ==
    LET bs == Batches
    IN \E b \in 1..Len(bs) : i \in Of(bs, b) /\ j \in Before(bs, b)
\* where processClient of record i can end in a run in which the store fails
\* nothing but an INSERT of a key it holds
FailureFree(i) ==
    LET k == clients[i].id
    IN IF ~Truthy(k) THEN {"ret_nokey"}
       ELSE IF k \in KeysOf(store0) THEN {ExistingOutcome}
       ELSE IF \E j \in KeyMates(i) : InEarlierBatch(j, i) THEN {ExistingOutcome}
       ELSE IF \E j \in KeyMates(i) : SameBatch(i, j)
       THEN {"ret_inserted", "catch_insert", ExistingOutcome}
       ELSE {"ret_inserted"}

\* C22 as stated (store-failure isolation): a record for which the store fails
\* a call is counted under errors only, and every other record of the run
\* ends as it would have ended without that failure.
C22_IsolationSameOutcome ==
    Real /\ Returned =>
        /\ \A i \in failed : rpc[i] \in Catches
        /\ Counted
        /\ \A i \in DOMAIN rpc \ failed : rpc[i] \in FailureFree(i)

\* C22 as amended: ... every other record of the same batch and of the later
\* batches is still reconciled, and with the outcome it would have had
\* without that failure when it does not carry the key of the failed record.
C22_IsolationOtherKeys ==
    Real /\ Returned =>
        /\ \A i \in failed : rpc[i] \in Catches
        /\ Counted
        /\ \A i \in DOMAIN rpc \ failed :
              /\ rpc[i] \in Settled
              /\ (\A j \in failed : clients[j].id # clients[i].id)
                     => rpc[i] \in FailureFree(i)
\* the store failed the check of the first record; the second, of the same
\* batch, was inserted and the third, of the next batch, found its key
C22_Witness ==
    /\ Real
    /\ Returned
    /\ BatchSize = 2
    /\ Len(clients) = 3
    /\ failed = {1}
    /\ clients[1].id = "A" /\ clients[2].id = "B" /\ clients[3].id = "B"
    /\ rpc = <<"catch_check", "ret_inserted", "ret_skipElse">>
    /\ stats.errors = 1

\* the records handed to processClient that have not finished
InFlight == {i \in DOMAIN rpc : Dispatched(i) /\ rpc[i] \notin Settled}

\* C25 (bounded concurrency): in every state of a real run with batch size
\* B >= 1 at most B records are dispatched and not yet settled, and they all
\* belong to the batch the loop is at.
C25_BoundedConcurrency ==
    Real /\ BatchSize >= 1 =>
        /\ Cardinality(InFlight) <= BatchSize
        /\ \A i, j \in InFlight : SameBatch(i, j)
        /\ InFlight # {} => pc \in {"map", "await"} /\ InFlight \subseteq InBatch(bi)
\* batch size 2, three records: both records of the first batch are in
\* flight and the third has not been dispatched
C25_Witness ==
    /\ Real
    /\ BatchSize = 2
    /\ Len(clients) = 3
    /\ InFlight = {1, 2}
    /\ rpc[3] = "new"

\* C26 (duplicates is written by the dry run only): no step of a real run,
\* its first included, changes duplicates, whatever the dataset repeats and
\* whatever the store answers.
C26_DuplicatesDryRunOnly ==
    [][~TruthyFlag(options'.dryRun) => stats'.duplicates = stats.duplicates]_vars
\* a real run that followed a dry run on the same importer has returned: the
\* dataset repeats a key, the store failed a call, and duplicates is still
\* what the dry run left
C26_Witness ==
    /\ Real
    /\ Returned
    /\ calls = 2
    /\ KeyRepeats(clients) # {}
    /\ failed # {}
    /\ stats.duplicates > 0
    /\ stats.duplicates = stats0.duplicates

\* C27 (same key in different batches): under the default policy and with no
\* store call failing, when records i < j carry the same non-empty key, the
\* table had no row for it, j is in a later batch than i and no other record
\* with that key is in the batch of i or before it, then i is inserted, j is
\* skipped, neither is an error and the row of the key holds the fields of i.
C27_LaterBatchSkipped ==
    Real /\ Returned /\ DefaultPolicy /\ failed = {} =>
        \A i \in DOMAIN clients : \A j \in KeyMates(i) :
            /\ Truthy(clients[i].id)
            /\ clients[i].id \notin KeysOf(store0)
            /\ \A m \in KeyMates(i) : InEarlierBatch(i, m)
            => /\ rpc[i] = "ret_inserted"
               /\ rpc[j] = "ret_skipDup"
               /\ RowsOf(store, clients[i].id) = {clients[i]}
\* batch size 1: {A, x} was inserted by the first batch and {A, y} skipped
\* by the second
C27_Witness ==
    /\ Real
    /\ Returned
    /\ DefaultPolicy
    /\ failed = {}
    /\ BatchSize = 1
    /\ clients = <<[id |-> "A", email |-> "x"], [id |-> "A", email |-> "y"]>>
    /\ store0 = {}
    /\ rpc = <<"ret_inserted", "ret_skipDup">>
    /\ store = {[id |-> "A", email |-> "x"]}
    /\ stats.imported = 1 /\ stats.skipped = 1 /\ stats.errors = 0

\* the duplicates of analyzeData once its loop has taken the first n records,
\* and what record i added to it
DupAfter(n) == analyzeLoop(SubSeq(clients, 1, n), 1, {}, {}, 0)
DryAdds(i) == DupAfter(i) - DupAfter(i - 1)
Keyless(i) == ~Truthy(clients[i].id)

\* C30 as stated (dry run and missing keys): a dry run counts no record with a
\* missing or empty key under errors; the first such record adds nothing to
\* duplicates and every later record with a missing key adds 1 (the email of
\* the record left aside).
C30_MissingKeysShareOneValue ==
    ~Real /\ Returned =>
        /\ stats.errors = 0
        /\ stats.duplicates = DupAfter(Len(clients))
        /\ \A i \in DOMAIN clients :
              Keyless(i) /\ i \notin EmailRepeats(clients) =>
                  IF \A j \in 1..(i - 1) : ~Keyless(j)
                  THEN DryAdds(i) = 0
                  ELSE clients[i].id = Undefined => DryAdds(i) = 1

\* C30 as amended: ... the first record with a missing key and the first
\* record with an empty key add nothing to duplicates, every later record
\* with a missing key and every later record with an empty key adds 1: the
\* missing keys are one shared key value and the empty keys are another.
C30_MissingAndEmptyApart ==
    ~Real /\ Returned =>
        /\ stats.errors = 0
        /\ stats.skipped = stats.duplicates
        /\ stats.duplicates = DupAfter(Len(clients))
        /\ \A i \in DOMAIN clients :
              Keyless(i) /\ i \notin EmailRepeats(clients) =>
                  DryAdds(i) = (IF \E j \in 1..(i - 1) : clients[j].id = clients[i].id
                                THEN 1 ELSE 0)
\* keys missing, empty, missing and no email repeated: the dry run reports
\* one duplicate, skipped 1 and errors 0
C30_Witness ==
    /\ ~Real
    /\ Returned
    /\ Len(clients) = 3
    /\ clients[1].id = Undefined /\ clients[2].id = "" /\ clients[3].id = Undefined
    /\ EmailRepeats(clients) = {}
    /\ DryAdds(1) = 0 /\ DryAdds(2) = 0 /\ DryAdds(3) = 1
    /\ stats.duplicates = 1 /\ stats.skipped = 1 /\ stats.errors = 0

\* C23 (batchSize reaching the Batcher is at least 1): whatever
\* options.batchSize is given to importAll, createBatches is called with a
\* positive batch size, and with 100 when the option is absent.
C23_BatchSizePositive ==
    Real /\ source = "loaded" =>
        /\ BatchSize >= 1
        /\ options.batchSize = <<>> => BatchSize = DefaultBatchSize

\* C24 (termination): every importAll that was called ends, by returning the
\* stats or by throwing the error of a source that did not load.
C24_Terminates ==
    (calls = 1) ~> (\/ pc = "returned"
                    \/ pc = "thrown" /\ source \in SourceFailures)

\* importer k of the two, wherever the event loop is
Run(k) == IF k = other.id THEN other ELSE Parked
DefaultPolicyOf(o) ==
    /\ o.skipDuplicates \in {"true", Undefined}
    /\ o.updateExisting \in {"false", Undefined}

\* C28 (re-import is idempotent under the default policy): when an importAll
\* of a dataset with distinct non-empty keys has returned with errors = 0 and
\* a new importer then runs importAll with the default policy over the same
\* dataset, the store failing no call, the second run leaves the table as it
\* found it and returns imported = 0, skipped = total, errors = 0.
C28_ReimportIdempotent ==
    other.second # 0 =>
        LET f == Run(3 - other.second)
            s == Run(other.second)
        IN (/\ s.pc = "returned"
            /\ DistinctKeys /\ AllKeysPresent
            /\ f.stats.errors = 0
            /\ DefaultPolicyOf(s.options)
            /\ s.failed = {})
           => /\ store = s.store0
              /\ s.stats.total = Len(clients)
              /\ s.stats.imported = 0
              /\ s.stats.skipped = s.stats.total
              /\ s.stats.errors = 0
\* the first importer inserted A and B into the empty table, the second
\* skipped both
C28_Witness ==
    /\ other.second # 0
    /\ Run(other.second).pc = "returned"
    /\ Len(clients) = 2 /\ DistinctKeys /\ AllKeysPresent
    /\ Run(3 - other.second).stats.imported = 2
    /\ Run(3 - other.second).stats.errors = 0
    /\ Run(other.second).failed = {}
    /\ Run(other.second).store0 = Range(clients)
    /\ Run(other.second).stats.skipped = 2
    /\ Run(other.second).stats.imported = 0
    /\ store = Range(clients)

\* C29 (overlapping imports on separate importers): when two importers have
\* each run importAll with the default policy over the same dataset of
\* distinct non-empty keys on a table that was empty, in any interleaving
\* and the store failing no call but for UNIQUE(client_id), every key has
\* exactly one row, the imported counts of the two add up to the number of
\* keys, and imported + skipped + errors = total for each.
C29_OverlappingImports ==
    (/\ pc = "returned" /\ other.pc = "returned"
     /\ store0 = {} \/ other.store0 = {}
     /\ DistinctKeys /\ AllKeysPresent
     /\ failed = {} /\ other.failed = {})
    => /\ store = Range(clients)
       /\ \A i \in DOMAIN clients : RowsOf(store, clients[i].id) = {clients[i]}
       /\ stats.imported + other.stats.imported = Len(clients)
       /\ \A k \in {1, 2} :
             /\ Run(k).stats.total = Len(clients)
             /\ Sum(Run(k).stats) = Run(k).stats.total
\* both importers found the table empty and each won the INSERT of one key
\* and lost the other to UNIQUE(client_id)
C29_Witness ==
    /\ pc = "returned" /\ other.pc = "returned"
    /\ store0 = {} /\ other.store0 = {}
    /\ Len(clients) = 2 /\ DistinctKeys /\ AllKeysPresent
    /\ failed = {} /\ other.failed = {}
    /\ stats.imported = 1 /\ stats.errors = 1
    /\ other.stats.imported = 1 /\ other.stats.errors = 1
    /\ store = Range(clients)

====
